---- MODULE Spec2Model ----
(***************************************************************************)
(* Triple-buffer LVGL display driver (src/triplebuffer.c).                 *)
(*                                                                         *)
(* Three contexts are modelled:                                            *)
(*   - the startup code (app_main) followed by the LVGL task (lvgl_task,   *)
(*     lvgl_flush_cb, gdma_copy_buffer, swap_buffers), one program counter *)
(*     `pc`, one statement (or one atomic group of statements) per step;   *)
(*   - the GDMA copy engine: it moves one pixel per step and, when a job   *)
(*     is finished, runs the completion callback gdma_copy_done_cb;        *)
(*   - the RGB panel: it latches the address handed to                     *)
(*     esp_lcd_panel_draw_bitmap and starts scanning it out at its next    *)
(*     vertical sync.                                                      *)
(*                                                                         *)
(* The display is scaled down to DISP_WIDTH x DISP_HEIGHT = 2 x 2 pixels   *)
(* and a pixel is black (0) or white (1): the driver never inspects a      *)
(* pixel value, it only moves pixels.                                      *)
(***************************************************************************)
EXTENDS Integers, Sequences, FiniteSets, TLC

(***************************************************************************)
(* Configuration                                                           *)
(***************************************************************************)
DISP_WIDTH == 2

DISP_HEIGHT == 2

DISP_BPP == 2

FB_SIZE == DISP_WIDTH * DISP_HEIGHT * DISP_BPP

\* number of uint16_t pixels in FB_SIZE bytes
FB_PIXELS == FB_SIZE \div DISP_BPP

\* config.backlog: how many copy requests the engine can hold
BACKLOG == 4

\* how many frames the rendering library renders before it stays idle
MaxFrames == 2

NULL == 0

\* the regions the allocator hands out, in allocation order (buf0, buf1, buf2)
Buffers == 1..3

\* RGB565 values used by the rendering library: 0x0000 and 0xFFFF
Pixel == {0, 1}

\* content of a freshly allocated region, before memset
Garbage == 2

PixIdx == 0..(FB_PIXELS - 1)

VARIABLES
    pc,                 \* position of app_main / the LVGL task
    work_buf,           \* static uint8_t *work_buf
    front_buf,          \* static uint8_t *front_buf
    back_buf,           \* static uint8_t *back_buf
    mem,                \* content of the three regions, in pixels
    s_copy_done_sem,    \* semaphore handle is valid
    sem_count,          \* count of the binary semaphore
    s_mcp_handle,       \* async memcpy driver installed
    s_copy_in_progress, \* static volatile bool s_copy_in_progress
    s_panel_handle,     \* panel created and initialised
    mcp_queue,          \* copy jobs accepted by the engine and not yet completed
    dst, src, len,      \* arguments of gdma_copy_buffer
    ret,                \* local ret of gdma_copy_buffer, kept until the flush ends
    tmp,                \* local tmp of swap_buffers
    flushing_last,      \* lv_disp_flush_is_last(drv) for the flush being served
    frames,             \* frames the rendering library has started
    presented,          \* address last handed to esp_lcd_panel_draw_bitmap
    scan,               \* region the panel is scanning out
    swap_entry,         \* history: the role assignment when swap_buffers was entered
    prev_final,         \* history: Front and Work when the last finalize sequence ended
    flushing,           \* draw_buf->flushing: a flush is handed out and not yet acknowledged
    tile                \* history: the arguments of the flush being served (TileSpec only)

vars == <<pc, work_buf, front_buf, back_buf, mem, s_copy_done_sem, sem_count,
          s_mcp_handle, s_copy_in_progress, s_panel_handle, mcp_queue, dst, src,
          len, ret, tmp, flushing_last, frames, presented, scan, swap_entry,
          prev_final, flushing, tile>>

roleVars == <<work_buf, front_buf, back_buf>>

taskLocals == <<dst, src, len, ret, tmp, flushing_last, swap_entry, prev_final,
                flushing, tile>>

gdmaVars == <<s_copy_done_sem, sem_count, s_mcp_handle, mcp_queue>>

panelVars == <<s_panel_handle, presented, scan>>

NoRoles == [work |-> NULL, back |-> NULL, front |-> NULL]

\* no finalize sequence has ended yet
NoFinal == [buf |-> NULL, front |-> <<>>, work |-> <<>>]

\* no flush arguments recorded
NoTile == [valid |-> FALSE, area |-> [x1 |-> 0, y1 |-> 0, x2 |-> 0, y2 |-> 0],
           color_map |-> <<>>, before |-> <<>>]

Roles == [work |-> work_buf, back |-> back_buf, front |-> front_buf]

(***************************************************************************)
(* Pure helpers                                                            *)
(***************************************************************************)

\* heap_caps_aligned_alloc: the k-th request returns region k, or NULL
HeapAlloc(k, ok) == IF ok THEN k ELSE NULL

\* memset(buf, 0, FB_SIZE)
Memset0(buf) == [i \in DOMAIN buf |-> 0]

\* memcpy of n pixels from from[srcOff..] to buf[dstOff..]
MemcpyPx(buf, dstOff, from, srcOff, n) ==
    [i \in DOMAIN buf |->
        IF i >= dstOff /\ i < dstOff + n THEN from[srcOff + (i - dstOff)] ELSE buf[i]]

AreaW(area) == area.x2 - area.x1 + 1

AreaH(area) == area.y2 - area.y1 + 1

\* the row offset computed with the width of the tile as the stride
RowOffset_tilestride(area, y) == (area.y1 + y) * AreaW(area) + area.x1

\* lvgl_flush_cb: the pixel offset of dst in the Work buffer for row y of the tile
RowOffset(area, y) == (area.y1 + y) * DISP_WIDTH + area.x1

\* the row loop of lvgl_flush_cb, from row y on
RECURSIVE CopyRows(_, _, _, _)
CopyRows(buf, area, color_map, y) ==
    IF y >= AreaH(area) THEN buf
    ELSE CopyRows(MemcpyPx(buf, RowOffset(area, y), color_map, y * AreaW(area),
                           AreaW(area)),
                  area, color_map, y + 1)

\* the areas the rendering library may flush: inside the display
Areas ==
    {a \in [x1 : 0..(DISP_WIDTH - 1), y1 : 0..(DISP_HEIGHT - 1),
            x2 : 0..(DISP_WIDTH - 1), y2 : 0..(DISP_HEIGHT - 1)] :
        a.x1 <= a.x2 /\ a.y1 <= a.y2}

ColorMaps(area) == [0..(AreaW(area) * AreaH(area) - 1) -> Pixel]

\* the buffer a tile is written to
TileTarget == work_buf

\* the copy called with the Front buffer as its destination
CopyDstArg_front == front_buf

\* the arguments of the call gdma_copy_buffer(back_buf, work_buf, FB_SIZE)
CopyDstArg == back_buf

CopySrcArg == work_buf

\* the copy called with a length one pixel short
CopyLenArg_short == FB_SIZE - DISP_BPP

CopyLenArg == FB_SIZE

(***************************************************************************)
(* Initial state: the statics of the translation unit                      *)
(***************************************************************************)
Init ==
    /\ pc = "allocate_buffers"
    /\ work_buf = NULL
    /\ front_buf = NULL
    /\ back_buf = NULL
    /\ mem = [b \in Buffers |-> [i \in PixIdx |-> Garbage]]
    /\ s_copy_done_sem = FALSE
    /\ sem_count = 0
    /\ s_mcp_handle = FALSE
    /\ s_copy_in_progress = FALSE
    /\ s_panel_handle = FALSE
    /\ mcp_queue = <<>>
    /\ dst = NULL
    /\ src = NULL
    /\ len = 0
    /\ ret = "none"
    /\ tmp = NULL
    /\ flushing_last = FALSE
    /\ frames = 0
    /\ presented = NULL
    /\ scan = NULL
    /\ swap_entry = NoRoles
    /\ prev_final = NoFinal
    /\ flushing = FALSE
    /\ tile = NoTile

(***************************************************************************)
(* Startup: app_main                                                       *)
(***************************************************************************)

\* allocate_buffers with a NULL check that misses the third request
AllocateBuffers_partial ==
    /\ pc = "allocate_buffers"
    /\ \E ok \in [1..3 -> BOOLEAN] :
          /\ work_buf' = HeapAlloc(1, ok[1])
          /\ front_buf' = HeapAlloc(2, ok[2])
          /\ back_buf' = HeapAlloc(3, ok[3])
          /\ IF ok[1] /\ ok[2]
                THEN /\ mem' = [b \in Buffers |-> Memset0(mem[b])]
                     /\ pc' = "gdma_copy_init"
                ELSE /\ mem' = mem
                     /\ pc' = "aborted"
    /\ UNCHANGED <<gdmaVars, s_copy_in_progress, panelVars, taskLocals, frames>>

\* allocate_buffers giving the second request to back_buf and the third to
\* front_buf
AllocateBuffers_backsecond ==
    /\ pc = "allocate_buffers"
    /\ \E ok \in [1..3 -> BOOLEAN] :
          /\ work_buf' = HeapAlloc(1, ok[1])
          /\ back_buf' = HeapAlloc(2, ok[2])
          /\ front_buf' = HeapAlloc(3, ok[3])
          /\ IF ok[1] /\ ok[2] /\ ok[3]
                THEN /\ mem' = [b \in Buffers |-> Memset0(mem[b])]
                     /\ pc' = "gdma_copy_init"
                ELSE /\ mem' = mem
                     /\ pc' = "aborted"
    /\ UNCHANGED <<gdmaVars, s_copy_in_progress, panelVars, taskLocals, frames>>

\* allocate_buffers, and ESP_ERROR_CHECK on its result
AllocateBuffers ==
    /\ pc = "allocate_buffers"
    /\ \E ok \in [1..3 -> BOOLEAN] :
          /\ work_buf' = HeapAlloc(1, ok[1])
          /\ front_buf' = HeapAlloc(2, ok[2])
          /\ back_buf' = HeapAlloc(3, ok[3])
          /\ IF ok[1] /\ ok[2] /\ ok[3]
                THEN /\ mem' = [b \in Buffers |-> Memset0(mem[b])]
                     /\ pc' = "gdma_copy_init"
                ELSE /\ mem' = mem
                     /\ pc' = "aborted"
    /\ UNCHANGED <<gdmaVars, s_copy_in_progress, panelVars, taskLocals, frames>>

\* gdma_copy_init, and ESP_ERROR_CHECK on its result
GdmaCopyInit ==
    /\ pc = "gdma_copy_init"
    /\ \E semOk \in BOOLEAN, installOk \in BOOLEAN :
          /\ s_copy_done_sem' = semOk
          /\ s_mcp_handle' = (semOk /\ installOk)
          /\ pc' = IF semOk /\ installOk THEN "lcd_panel_init" ELSE "aborted"
    /\ UNCHANGED <<roleVars, mem, sem_count, mcp_queue, s_copy_in_progress,
                   panelVars, taskLocals, frames>>

\* lcd_panel_init, and ESP_ERROR_CHECK on its result
LcdPanelInit ==
    /\ pc = "lcd_panel_init"
    /\ \E ok \in BOOLEAN :
          /\ s_panel_handle' = ok
          /\ pc' = IF ok THEN "first_frame" ELSE "aborted"
    /\ UNCHANGED <<roleVars, mem, gdmaVars, s_copy_in_progress, presented, scan,
                   taskLocals, frames>>

\* app_main step 4: display the first (black) frame
FirstFrame ==
    /\ pc = "first_frame"
    /\ presented' = front_buf
    /\ pc' = "lvgl_display_init"
    /\ UNCHANGED <<roleVars, mem, gdmaVars, s_copy_in_progress, s_panel_handle, scan,
                   taskLocals, frames>>

\* app_main steps 5 to 7: LVGL setup, demo UI, start of the LVGL task
StartLvglTask ==
    /\ pc = "lvgl_display_init"
    /\ pc' = "lv_timer_handler"
    /\ UNCHANGED <<roleVars, mem, gdmaVars, s_copy_in_progress, panelVars,
                   taskLocals, frames>>

(***************************************************************************)
(* The LVGL task                                                           *)
(***************************************************************************)

\* lvgl_task calls lv_timer_handler: the library starts rendering a frame, or
\* has nothing to draw
LvTimerHandler ==
    /\ pc = "lv_timer_handler"
    /\ \/ /\ frames < MaxFrames
          /\ frames' = frames + 1
          /\ pc' = "refr"
       \/ /\ frames' = frames
          /\ pc' = "vTaskDelay"
    /\ UNCHANGED <<roleVars, mem, gdmaVars, s_copy_in_progress, panelVars, taskLocals>>

\* the rest of the loop body of lvgl_task
VTaskDelay ==
    /\ pc = "vTaskDelay"
    /\ pc' = "lv_timer_handler"
    /\ UNCHANGED <<roleVars, mem, gdmaVars, s_copy_in_progress, panelVars,
                   taskLocals, frames>>

\* lvgl_flush_cb, the tile copy into the Work buffer and the test for the last flush
\* a flush callback that acknowledges right after the tile copy, whether or not
\* the flush is the last of its frame
FlushTile_ackfirst(area, color_map, last) ==
    /\ pc = "refr"
    /\ flushing' = TRUE
    /\ mem' = [mem EXCEPT ![TileTarget] = CopyRows(@, area, color_map, 0)]
    /\ flushing_last' = last
    /\ pc' = "lv_disp_flush_ready"
    /\ UNCHANGED <<roleVars, gdmaVars, s_copy_in_progress, panelVars, dst, src, len,
                   ret, tmp, swap_entry, prev_final, frames>>

FlushTile(area, color_map, last) ==
    /\ pc = "refr"
    /\ flushing' = TRUE
    /\ mem' = [mem EXCEPT ![TileTarget] = CopyRows(@, area, color_map, 0)]
    /\ flushing_last' = last
    /\ pc' = IF last THEN "gdma_copy_buffer" ELSE "lv_disp_flush_ready"
    /\ UNCHANGED <<roleVars, gdmaVars, s_copy_in_progress, panelVars,
                   dst, src, len, ret, tmp, swap_entry, prev_final, frames>>

\* the rendering library flushes some area of the frame it is rendering
LvglFlushCb ==
    /\ \E area \in Areas, last \in BOOLEAN :
          \E color_map \in ColorMaps(area) : FlushTile(area, color_map, last)
    /\ UNCHANGED tile

\* the call gdma_copy_buffer(back_buf, work_buf, FB_SIZE) and its first statement
GdmaCopyBuffer ==
    /\ pc = "gdma_copy_buffer"
    /\ dst' = CopyDstArg
    /\ src' = CopySrcArg
    /\ len' = CopyLenArg
    /\ s_copy_in_progress' = TRUE
    /\ pc' = "esp_async_memcpy"
    /\ UNCHANGED <<roleVars, mem, gdmaVars, panelVars, ret, tmp, flushing_last,
                   swap_entry, prev_final, flushing, tile, frames>>

\* gdma_copy_buffer returning as soon as the request is accepted
EspAsyncMemcpy_forget ==
    /\ pc = "esp_async_memcpy"
    /\ \E accepted \in BOOLEAN :
          /\ accepted => Len(mcp_queue) < BACKLOG
          /\ IF accepted
                THEN /\ mcp_queue' = Append(mcp_queue,
                                             [dst |-> dst, src |-> src, len |-> len, pos |-> 0])
                     /\ ret' = "ESP_OK"
                     /\ pc' = "copy_done"
                ELSE /\ mcp_queue' = mcp_queue
                     /\ ret' = "ESP_FAIL"
                     /\ pc' = "memcpy"
    /\ UNCHANGED <<roleVars, mem, s_copy_done_sem, sem_count, s_mcp_handle,
                   s_copy_in_progress, panelVars, dst, src, len, tmp, flushing_last,
                   swap_entry, prev_final, flushing, tile, frames>>

\* esp_async_memcpy: the engine accepts the request, or refuses it
EspAsyncMemcpy ==
    /\ pc = "esp_async_memcpy"
    /\ \E accepted \in BOOLEAN :
          /\ accepted => Len(mcp_queue) < BACKLOG
          /\ IF accepted
                THEN /\ mcp_queue' = Append(mcp_queue,
                                             [dst |-> dst, src |-> src, len |-> len, pos |-> 0])
                     /\ ret' = "ESP_OK"
                     /\ pc' = "xSemaphoreTake"
                ELSE /\ mcp_queue' = mcp_queue
                     /\ ret' = "ESP_FAIL"
                     /\ pc' = "memcpy"
    /\ UNCHANGED <<roleVars, mem, s_copy_done_sem, sem_count, s_mcp_handle,
                   s_copy_in_progress, panelVars, dst, src, len, tmp, flushing_last,
                   swap_entry, prev_final, flushing, tile, frames>>

\* the fallback branch without its return: it goes on to wait for the engine
FallbackMemcpy_fallthrough ==
    /\ pc = "memcpy"
    /\ mem' = [mem EXCEPT ![dst] = MemcpyPx(@, 0, mem[src], 0, len \div DISP_BPP)]
    /\ s_copy_in_progress' = FALSE
    /\ pc' = "xSemaphoreTake"
    /\ UNCHANGED <<roleVars, gdmaVars, panelVars, dst, src, len, ret, tmp,
                   flushing_last, swap_entry, prev_final, flushing, tile, frames>>

\* the fallback branch logging the failure and returning without the memcpy
FallbackMemcpy_nocopy ==
    /\ pc = "memcpy"
    /\ s_copy_in_progress' = FALSE
    /\ dst' = NULL
    /\ src' = NULL
    /\ len' = 0
    /\ pc' = "swap_buffers"
    /\ UNCHANGED <<roleVars, mem, gdmaVars, panelVars, ret, tmp, flushing_last,
                   swap_entry, prev_final, flushing, tile, frames>>

\* the fallback branch of gdma_copy_buffer
FallbackMemcpy ==
    /\ pc = "memcpy"
    /\ mem' = [mem EXCEPT ![dst] = MemcpyPx(@, 0, mem[src], 0, len \div DISP_BPP)]
    /\ s_copy_in_progress' = FALSE
    /\ dst' = NULL
    /\ src' = NULL
    /\ len' = 0
    /\ pc' = "swap_buffers"
    /\ UNCHANGED <<roleVars, gdmaVars, panelVars, ret, tmp, flushing_last,
                   swap_entry, prev_final, flushing, tile, frames>>

\* a take that returns without the semaphore having been given
SemaphoreTake_nowait ==
    /\ pc = "xSemaphoreTake"
    /\ sem_count' = 0
    /\ pc' = "copy_done"
    /\ UNCHANGED <<roleVars, mem, s_copy_done_sem, s_mcp_handle, mcp_queue,
                   s_copy_in_progress, panelVars, taskLocals, frames>>

\* a take that returns on a given semaphore without consuming the signal
SemaphoreTake_keep ==
    /\ pc = "xSemaphoreTake"
    /\ sem_count = 1
    /\ sem_count' = sem_count
    /\ pc' = "copy_done"
    /\ UNCHANGED <<roleVars, mem, s_copy_done_sem, s_mcp_handle, mcp_queue,
                   s_copy_in_progress, panelVars, taskLocals, frames>>

\* xSemaphoreTake(s_copy_done_sem, portMAX_DELAY)
SemaphoreTake ==
    /\ pc = "xSemaphoreTake"
    /\ sem_count = 1
    /\ sem_count' = 0
    /\ pc' = "copy_done"
    /\ UNCHANGED <<roleVars, mem, s_copy_done_sem, s_mcp_handle, mcp_queue,
                   s_copy_in_progress, panelVars, taskLocals, frames>>

\* the last statement of gdma_copy_buffer, and its return
CopyDone ==
    /\ pc = "copy_done"
    /\ s_copy_in_progress' = FALSE
    /\ dst' = NULL
    /\ src' = NULL
    /\ len' = 0
    /\ pc' = "swap_buffers"
    /\ UNCHANGED <<roleVars, mem, gdmaVars, panelVars, ret, tmp, flushing_last,
                   swap_entry, prev_final, flushing, tile, frames>>

\* swap_buffers: uint8_t *tmp = front_buf
SwapTmp ==
    /\ pc = "swap_buffers"
    /\ tmp' = front_buf
    /\ swap_entry' = Roles
    /\ pc' = "swap_front"
    /\ UNCHANGED <<roleVars, mem, gdmaVars, s_copy_in_progress, panelVars,
                   dst, src, len, ret, flushing_last, frames, prev_final, flushing,
                   tile>>

\* swap_buffers rotating the Work buffer into the Front role
SwapFront_rotate ==
    /\ pc = "swap_front"
    /\ front_buf' = work_buf
    /\ work_buf' = back_buf
    /\ pc' = "swap_back"
    /\ UNCHANGED <<back_buf, mem, gdmaVars, s_copy_in_progress, panelVars,
                   taskLocals, frames>>

\* swap_buffers: front_buf = back_buf
SwapFront ==
    /\ pc = "swap_front"
    /\ front_buf' = back_buf
    /\ pc' = "swap_back"
    /\ UNCHANGED <<work_buf, back_buf, mem, gdmaVars, s_copy_in_progress, panelVars,
                   taskLocals, frames>>

\* swap_buffers with the second assignment reading the wrong pointer
SwapBack_lost ==
    /\ pc = "swap_back"
    /\ back_buf' = front_buf
    /\ pc' = "swap_present"
    /\ UNCHANGED <<work_buf, front_buf, mem, gdmaVars, s_copy_in_progress, panelVars,
                   taskLocals, frames>>

\* swap_buffers: back_buf = tmp
SwapBack ==
    /\ pc = "swap_back"
    /\ back_buf' = tmp
    /\ pc' = "swap_present"
    /\ UNCHANGED <<work_buf, front_buf, mem, gdmaVars, s_copy_in_progress, panelVars,
                   taskLocals, frames>>

\* swap_buffers handing the old Front buffer to the panel
SwapPresent_back ==
    /\ pc = "swap_present"
    /\ presented' = back_buf
    /\ tmp' = NULL
    /\ pc' = "lv_disp_flush_ready"
    /\ UNCHANGED <<roleVars, mem, gdmaVars, s_copy_in_progress, s_panel_handle, scan,
                   dst, src, len, ret, flushing_last, swap_entry, prev_final, flushing,
                   tile, frames>>

\* swap_buffers: esp_lcd_panel_draw_bitmap(..., front_buf), and the return
SwapPresent ==
    /\ pc = "swap_present"
    /\ presented' = front_buf
    /\ tmp' = NULL
    /\ pc' = "lv_disp_flush_ready"
    /\ UNCHANGED <<roleVars, mem, gdmaVars, s_copy_in_progress, s_panel_handle, scan,
                   dst, src, len, ret, flushing_last, swap_entry, prev_final, flushing,
                   tile, frames>>

\* lv_disp_flush_ready(drv): the flush is over; after the last flush of a frame
\* lv_timer_handler returns
LvDispFlushReady ==
    /\ pc = "lv_disp_flush_ready"
    /\ flushing' = FALSE
    /\ flushing_last' = FALSE
    /\ ret' = "none"
    /\ swap_entry' = NoRoles
    /\ tile' = NoTile
    /\ prev_final' = IF flushing_last
                        THEN [buf |-> front_buf, front |-> mem[front_buf],
                              work |-> mem[work_buf]]
                        ELSE prev_final
    /\ pc' = IF flushing_last THEN "vTaskDelay" ELSE "refr"
    /\ UNCHANGED <<roleVars, mem, gdmaVars, s_copy_in_progress, panelVars,
                   dst, src, len, tmp, frames>>

(***************************************************************************)
(* The copy engine                                                         *)
(***************************************************************************)

\* the engine moves the next pixel of the job at the head of its queue
DmaStep ==
    /\ Len(mcp_queue) > 0
    /\ mcp_queue[1].pos < mcp_queue[1].len \div DISP_BPP
    /\ LET job == mcp_queue[1] IN
          /\ mem' = [mem EXCEPT ![job.dst][job.pos] = mem[job.src][job.pos]]
          /\ mcp_queue' = [mcp_queue EXCEPT ![1].pos = @ + 1]
    /\ UNCHANGED <<pc, roleVars, s_copy_done_sem, sem_count, s_mcp_handle,
                   s_copy_in_progress, panelVars, taskLocals, frames>>

\* a give that does not reach the semaphore
SemaphoreGive_lost(count) == count

\* xSemaphoreGiveFromISR on a binary semaphore: the count saturates at one
SemaphoreGive(count) == IF count < 1 THEN count + 1 ELSE count

\* a completion callback that also clears the copy-in-progress flag
GdmaCopyDoneCb_clearflag ==
    /\ Len(mcp_queue) > 0
    /\ mcp_queue[1].pos = mcp_queue[1].len \div DISP_BPP
    /\ sem_count' = SemaphoreGive(sem_count)
    /\ mcp_queue' = Tail(mcp_queue)
    /\ s_copy_in_progress' = FALSE
    /\ UNCHANGED <<pc, roleVars, mem, s_copy_done_sem, s_mcp_handle,
                   panelVars, taskLocals, frames>>

\* gdma_copy_done_cb, run by the engine when the job at the head is finished
GdmaCopyDoneCb ==
    /\ Len(mcp_queue) > 0
    /\ mcp_queue[1].pos = mcp_queue[1].len \div DISP_BPP
    /\ sem_count' = SemaphoreGive(sem_count)
    /\ mcp_queue' = Tail(mcp_queue)
    /\ UNCHANGED <<pc, roleVars, mem, s_copy_done_sem, s_mcp_handle,
                   s_copy_in_progress, panelVars, taskLocals, frames>>

(***************************************************************************)
(* The panel                                                               *)
(***************************************************************************)

\* vertical sync: the panel picks up the address handed to it last
VSync ==
    /\ s_panel_handle
    /\ scan # presented
    /\ scan' = presented
    /\ UNCHANGED <<pc, roleVars, mem, gdmaVars, s_copy_in_progress, s_panel_handle,
                   presented, taskLocals, frames>>

(***************************************************************************)
(* Specification                                                           *)
(***************************************************************************)
Next ==
    \/ AllocateBuffers
    \/ GdmaCopyInit
    \/ LcdPanelInit
    \/ FirstFrame
    \/ StartLvglTask
    \/ LvTimerHandler
    \/ VTaskDelay
    \/ LvglFlushCb
    \/ GdmaCopyBuffer
    \/ EspAsyncMemcpy
    \/ FallbackMemcpy
    \/ SemaphoreTake
    \/ CopyDone
    \/ SwapTmp
    \/ SwapFront
    \/ SwapBack
    \/ SwapPresent
    \/ LvDispFlushReady
    \/ DmaStep
    \/ GdmaCopyDoneCb
    \/ VSync

\* the steps of the LVGL task
TaskStep ==
    \/ LvTimerHandler
    \/ VTaskDelay
    \/ LvglFlushCb
    \/ GdmaCopyBuffer
    \/ EspAsyncMemcpy
    \/ FallbackMemcpy
    \/ SemaphoreTake
    \/ CopyDone
    \/ SwapTmp
    \/ SwapFront
    \/ SwapBack
    \/ SwapPresent
    \/ LvDispFlushReady

Spec == Init /\ [][Next]_vars

\* the scheduler runs the LVGL task whenever it is ready; the engine finishes
\* every job it accepted and runs the completion callback for it
FairSpec ==
    /\ Spec
    /\ WF_vars(TaskStep)
    /\ WF_vars(DmaStep)
    /\ WF_vars(GdmaCopyDoneCb)

(***************************************************************************)
(* The tile copy of lvgl_flush_cb on its own: the task is rendering a      *)
(* frame, the Work buffer holds any content, and the arguments of the      *)
(* flush are recorded until it is acknowledged                             *)
(***************************************************************************)
TileInit ==
    /\ pc = "refr"
    /\ work_buf = 1
    /\ front_buf = 2
    /\ back_buf = 3
    /\ \E w \in [PixIdx -> Pixel], c \in Pixel :
          mem = [b \in Buffers |-> IF b = 1 THEN w ELSE [i \in PixIdx |-> c]]
    /\ s_copy_done_sem = TRUE
    /\ sem_count = 0
    /\ s_mcp_handle = TRUE
    /\ s_copy_in_progress = FALSE
    /\ s_panel_handle = TRUE
    /\ mcp_queue = <<>>
    /\ dst = NULL
    /\ src = NULL
    /\ len = 0
    /\ ret = "none"
    /\ tmp = NULL
    /\ flushing_last = FALSE
    /\ frames = 1
    /\ presented = 2
    /\ scan = 2
    /\ swap_entry = NoRoles
    /\ prev_final = NoFinal
    /\ flushing = FALSE
    /\ tile = NoTile

\* a flush that is not the last of its frame, its arguments recorded
TileFlush ==
    \E area \in Areas :
        \E color_map \in ColorMaps(area) :
            /\ FlushTile(area, color_map, FALSE)
            /\ tile' = [valid |-> TRUE, area |-> area, color_map |-> color_map,
                        before |-> mem]

TileNext ==
    \/ TileFlush
    \/ LvDispFlushReady

TileSpec == TileInit /\ [][TileNext]_vars

TypeOK ==
    /\ work_buf \in Buffers \cup {NULL}
    /\ front_buf \in Buffers \cup {NULL}
    /\ back_buf \in Buffers \cup {NULL}
    /\ mem \in [Buffers -> [PixIdx -> Pixel \cup {Garbage}]]
    /\ sem_count \in {0, 1}
    /\ Len(mcp_queue) <= BACKLOG
    /\ frames \in 0..MaxFrames
    /\ presented \in Buffers \cup {NULL}
    /\ scan \in Buffers \cup {NULL}


(***************************************************************************)
(* Views used by the properties                                            *)
(***************************************************************************)

\* the task is inside swap_buffers
SwapPcs == {"swap_buffers", "swap_front", "swap_back", "swap_present"}

\* the task is inside gdma_copy_buffer, after its first statement
CopyPcs == {"esp_async_memcpy", "memcpy", "xSemaphoreTake", "copy_done"}

StartupPcs == {"allocate_buffers", "gdma_copy_init", "lcd_panel_init", "first_frame",
               "lvgl_display_init", "aborted"}

\* the per-frame state, read off the position of the task in lvgl_flush_cb
FrameState ==
    CASE pc \in {"esp_async_memcpy", "memcpy"} -> "FINALIZING"
      [] pc \in {"xSemaphoreTake", "copy_done"} -> "COPY_WAIT"
      [] pc \in SwapPcs -> "SWAPPED"
      [] pc = "lv_disp_flush_ready" /\ flushing_last -> "SWAPPED"
      [] OTHER -> "RENDERING"

\* allocate_buffers has returned ESP_OK
Allocated == pc \notin {"allocate_buffers", "aborted"}

\* each role names one buffer and each buffer has one role
Bijection == {work_buf, back_buf, front_buf} = Buffers /\ Cardinality(Buffers) = 3

(***************************************************************************)
(* C1: the role assignment is a bijection in every state                   *)
(***************************************************************************)

\* C1 (as stated): in every reachable state after allocation, the states between
\* the pointer assignments of swap_buffers included, work_buf, back_buf and
\* front_buf name three pairwise distinct buffers and every buffer has a role.
C1_BijectionAlways == Allocated => Bijection

\* C1 (amended): after allocation the role assignment is a bijection in every
\* state except the one between `front_buf = back_buf` and `back_buf = tmp` of
\* swap_buffers; there front_buf and back_buf name the same buffer and the old
\* Front buffer is named by tmp alone, so that work_buf, back_buf and tmp are the
\* three buffers.
C1_BijectionOutsideSwap ==
    Allocated =>
        IF pc = "swap_back"
            THEN front_buf = back_buf /\ {work_buf, back_buf, tmp} = Buffers
            ELSE Bijection

\* a swap has exchanged the roles and the assignment is a bijection again
C1_Witness ==
    /\ pc = "swap_present"
    /\ Bijection
    /\ front_buf = swap_entry.back
    /\ back_buf = swap_entry.front

(***************************************************************************)
(* C2: swap is a permutation of Back and Front, and nothing else relabels  *)
(***************************************************************************)

\* C2: when swap_buffers returns, Front is the Back of its entry, Back is the
\* Front of its entry and Work is the Work of its entry; no step taken while the
\* task is inside swap_buffers changes the content of a buffer; once allocated,
\* the role assignment is changed by no step outside swap_buffers and work_buf
\* never changes.
C2_SwapPermutation ==
    /\ [](pc = "lv_disp_flush_ready" /\ swap_entry # NoRoles =>
            /\ front_buf = swap_entry.back
            /\ back_buf = swap_entry.front
            /\ work_buf = swap_entry.work)
    /\ [][(pc \in SwapPcs) => (mem' = mem)]_vars
    /\ [][Allocated /\ pc \notin SwapPcs => (Roles' = Roles)]_vars
    /\ [][Allocated => (work_buf' = work_buf)]_vars

\* swap_buffers has returned for the second time: the roles are those of startup
C2_Witness ==
    /\ pc = "lv_disp_flush_ready"
    /\ swap_entry # NoRoles
    /\ frames = 2
    /\ front_buf = swap_entry.back
    /\ back_buf = swap_entry.front

(***************************************************************************)
(* C3: swap only after the copy of the frame has completed and was observed*)
(***************************************************************************)

\* C3: whenever the task is inside swap_buffers (or has taken the semaphore and
\* is about to enter it), the engine holds no copy job, no completion signal is
\* pending, and the buffer that held the Back role when the copy was submitted
\* equals the Work buffer in every pixel.
C3_SwapAfterCopy ==
    /\ pc \in SwapPcs \cup {"copy_done"} =>
          /\ mcp_queue = <<>>
          /\ sem_count = 0
    /\ pc \in {"copy_done", "swap_buffers"} => mem[back_buf] = mem[work_buf]
    /\ pc \in SwapPcs \ {"swap_buffers"} => mem[swap_entry.back] = mem[work_buf]

\* the task enters swap_buffers after an asynchronous copy of a non-black frame
C3_Witness ==
    /\ pc = "swap_buffers"
    /\ ret = "ESP_OK"
    /\ mem[back_buf] = mem[work_buf]
    /\ \E i \in PixIdx : mem[back_buf][i] = 1

(***************************************************************************)
(* C4: no bulk copy writes into the buffer the panel is scanning out       *)
(***************************************************************************)

\* C4 (as stated): no step of the copy engine and no fallback memcpy writes into
\* the buffer the panel is scanning out, the panel switching to the presented
\* address only at its vertical sync.
C4_NoCopyIntoScanout ==
    [][/\ DmaStep => (mcp_queue[1].dst # scan)
       /\ FallbackMemcpy => (dst # scan)]_vars

(***************************************************************************)
(* C5: copies go from Work to Back, tiles go to Work, Front is not written *)
(***************************************************************************)

\* C5: every request handed to the copy engine, every pixel the engine moves and
\* every fallback memcpy reads the buffer holding the Work role and writes the
\* buffer holding the Back role, which is not the Front buffer; a tile write
\* changes no buffer but the Work buffer, which is not the Front buffer.
C5_CopyWorkToBack ==
    [][/\ EspAsyncMemcpy => (src = work_buf /\ dst = back_buf /\ dst # front_buf)
       /\ DmaStep => /\ mcp_queue[1].src = work_buf
                     /\ mcp_queue[1].dst = back_buf
                     /\ mcp_queue[1].dst # front_buf
       /\ FallbackMemcpy => (src = work_buf /\ dst = back_buf /\ dst # front_buf)
       /\ LvglFlushCb => /\ work_buf # front_buf
                         /\ \A b \in Buffers \ {work_buf} : mem'[b] = mem[b]]_vars

\* the engine has moved part of a non-black Work buffer into the Back buffer
C5_Witness ==
    /\ Len(mcp_queue) = 1
    /\ mcp_queue[1].pos > 0
    /\ mcp_queue[1].pos < FB_PIXELS
    /\ mcp_queue[1].dst = back_buf
    /\ mem[back_buf][0] = 1
    /\ mem[front_buf] # mem[work_buf]

(***************************************************************************)
(* C6: no tile write while a copy job reading Work is outstanding          *)
(***************************************************************************)

\* C6: whenever the rendering library may flush a tile (the task is between
\* two flushes or serving a flush that is not in its finalize sequence), the
\* engine holds no copy job, no completion signal is pending and
\* s_copy_in_progress is clear; and no tile write step is taken in a state with a
\* copy job.
C6_NoTileDuringCopy ==
    /\ [](pc \in {"refr", "lv_timer_handler", "vTaskDelay", "gdma_copy_buffer"} =>
            /\ mcp_queue = <<>>
            /\ sem_count = 0
            /\ ~s_copy_in_progress)
    /\ [][LvglFlushCb => (mcp_queue = <<>>)]_vars

\* a tile of the second frame has been written, after the finalize of the first
C6_Witness ==
    /\ pc = "lv_disp_flush_ready"
    /\ ~flushing_last
    /\ frames = 2
    /\ mem[work_buf] # mem[front_buf]

(***************************************************************************)
(* C7: at most one copy job outstanding, at most one frame in finalize     *)
(***************************************************************************)

\* copy jobs submitted whose completion the task has not consumed
Outstanding == Len(mcp_queue) + sem_count

\* frames whose copy is about to be submitted, in flight or not yet consumed
FramesInFinalize ==
    Outstanding + (IF pc \in {"esp_async_memcpy", "memcpy"} THEN 1 ELSE 0)

\* C7: at most one copy job is outstanding and at most one frame is in
\* {FINALIZING, COPY_WAIT}; a copy job is outstanding only while the task waits
\* for it, and s_copy_in_progress is set exactly in those two frame states.
C7_OneCopyJob ==
    /\ Outstanding <= 1
    /\ FramesInFinalize <= 1
    /\ Outstanding = 1 => pc = "xSemaphoreTake"
    /\ s_copy_in_progress <=> FrameState \in {"FINALIZING", "COPY_WAIT"}

\* the second frame is in COPY_WAIT with its copy job half done
C7_Witness ==
    /\ frames = 2
    /\ FrameState = "COPY_WAIT"
    /\ Len(mcp_queue) = 1
    /\ mcp_queue[1].pos = 2

(***************************************************************************)
(* C8: the synchronous fallback                                            *)
(***************************************************************************)

\* C8: once esp_async_memcpy has failed for a flush, the task is in the fallback
\* memcpy, in swap_buffers or at lv_disp_flush_ready, never at the semaphore; no
\* copy job and no completion signal exists; when the task enters swap_buffers
\* the Back buffer equals the Work buffer, after the exchange the Front buffer
\* does; and the task always has a step to take.
C8_FallbackCopy ==
    ret = "ESP_FAIL" =>
        /\ pc \in {"memcpy", "lv_disp_flush_ready"} \cup SwapPcs
        /\ mcp_queue = <<>>
        /\ sem_count = 0
        /\ pc = "swap_buffers" => mem[back_buf] = mem[work_buf]
        /\ pc \in {"swap_present", "lv_disp_flush_ready"} => mem[front_buf] = mem[work_buf]
        /\ ENABLED TaskStep

\* a non-black frame went through the fallback copy and was swapped to Front
C8_Witness ==
    /\ ret = "ESP_FAIL"
    /\ pc = "lv_disp_flush_ready"
    /\ mem[front_buf] = mem[work_buf]
    /\ mem[front_buf] # mem[back_buf]

(***************************************************************************)
(* C9: every finalize sequence completes                                   *)
(***************************************************************************)

\* C9: with the task scheduled whenever it is ready and the engine completing and
\* signalling every accepted copy, a frame in FINALIZING or COPY_WAIT eventually
\* reaches SWAPPED, a frame not in RENDERING eventually returns to RENDERING, and
\* once the LVGL task runs some step is always possible.
C9_FinalizeCompletes ==
    /\ (FrameState \in {"FINALIZING", "COPY_WAIT"}) ~> (FrameState = "SWAPPED")
    /\ (FrameState # "RENDERING") ~> (FrameState = "RENDERING")
    /\ [](pc \notin StartupPcs => ENABLED Next)

\* the completion has fired before the task started to wait
C9_Witness ==
    /\ pc = "xSemaphoreTake"
    /\ sem_count = 1
    /\ mcp_queue = <<>>

(***************************************************************************)
(* C10: after finalize, Front holds the frame composed in Work             *)
(***************************************************************************)

\* C10: when a finalize sequence has completed, the buffer holding the Front role
\* equals the Work buffer in every pixel; and from the last tile write to the end
\* of the finalize sequence no step changes the content of the Work buffer.
C10_FrontEqualsWork ==
    /\ [](pc = "lv_disp_flush_ready" /\ flushing_last => mem[front_buf] = mem[work_buf])
    /\ [][(FrameState # "RENDERING" \/ pc = "gdma_copy_buffer") =>
            (mem'[work_buf] = mem[work_buf])]_vars

\* the second frame, whose last pixel differs from the first frame's, is in Front
C10_Witness ==
    /\ pc = "lv_disp_flush_ready"
    /\ flushing_last
    /\ frames = 2
    /\ mem[front_buf] = mem[work_buf]
    /\ mem[front_buf][FB_PIXELS - 1] # mem[back_buf][FB_PIXELS - 1]

(***************************************************************************)
(* C11: finalize is idempotent on the displayed content                    *)
(***************************************************************************)

\* C11: every finalize sequence starts in a flush that writes a tile, so two
\* finalize sequences "with no tile write between them" are two whose tiles leave
\* the content of the Work buffer as it was when the first one ended.  When the
\* second one has ended, the Front buffer then holds the content the Front buffer
\* held when the first one ended, and it is the other physical buffer.
C11_FinalizeIdempotent ==
    (/\ pc = "lv_disp_flush_ready"
     /\ flushing_last
     /\ prev_final # NoFinal
     /\ mem[work_buf] = prev_final.work)
        => /\ mem[front_buf] = prev_final.front
           /\ front_buf # prev_final.buf

\* a second finalize of an unchanged, non-black Work buffer has ended
C11_Witness ==
    /\ pc = "lv_disp_flush_ready"
    /\ flushing_last
    /\ prev_final # NoFinal
    /\ mem[work_buf] = prev_final.work
    /\ mem[front_buf] = prev_final.front
    /\ front_buf # prev_final.buf
    /\ \E i \in PixIdx : mem[front_buf][i] = 1

(***************************************************************************)
(* C12: the tile copy                                                      *)
(***************************************************************************)

\* pixel i of a buffer lies in the rectangle of the area
InArea(area, i) ==
    /\ i % DISP_WIDTH >= area.x1
    /\ i % DISP_WIDTH <= area.x2
    /\ i \div DISP_WIDTH >= area.y1
    /\ i \div DISP_WIDTH <= area.y2

\* C12: after the tile copy of a flush whose area lies inside the display, the
\* Work pixel at (x1 + c, y1 + r) is pixel r * w + c of the payload for every row
\* r and column c of the tile, every Work pixel outside the rectangle is as it
\* was, every row written lies inside the Work buffer and the other two buffers
\* are as they were.
C12_TileCopy ==
    tile.valid =>
        LET a == tile.area
            w == AreaW(a)
            h == AreaH(a)
        IN  /\ \A r \in 0..(h - 1), c \in 0..(w - 1) :
                  mem[work_buf][(a.y1 + r) * DISP_WIDTH + a.x1 + c]
                      = tile.color_map[r * w + c]
            /\ \A i \in PixIdx :
                  ~InArea(a, i) => mem[work_buf][i] = tile.before[work_buf][i]
            /\ \A r \in 0..(h - 1) :
                  /\ RowOffset(a, r) \in PixIdx
                  /\ RowOffset(a, r) + w - 1 \in PixIdx
            /\ \A b \in Buffers \ {work_buf} : mem[b] = tile.before[b]

\* a tile one pixel wide and two rows high in the last column, touching the last
\* pixel of the display, has been copied and changed both of its pixels
C12_Witness ==
    /\ tile.valid
    /\ tile.area = [x1 |-> DISP_WIDTH - 1, y1 |-> DISP_HEIGHT - 2,
                    x2 |-> DISP_WIDTH - 1, y2 |-> DISP_HEIGHT - 1]
    /\ tile.color_map[0] # tile.color_map[1]
    /\ mem[work_buf][FB_PIXELS - 1] = tile.color_map[1]
    /\ mem[work_buf][FB_PIXELS - 1] # tile.before[work_buf][FB_PIXELS - 1]
    /\ mem[work_buf][FB_PIXELS - 1 - DISP_WIDTH] # tile.before[work_buf][FB_PIXELS - 1 - DISP_WIDTH]

(***************************************************************************)
(* C13: who writes the address advertised to the panel                     *)
(***************************************************************************)

\* C13 (as stated): the advertised address is changed by no step but the present
\* of swap_buffers, and in every state in which an address is advertised and the
\* task is not between the exchange and the present of swap_buffers it is the
\* Front buffer.
C13_OnlySwapPresents ==
    /\ [][presented' # presented => SwapPresent]_vars
    /\ [](presented # NULL /\ pc \notin {"swap_back", "swap_present"}
            => presented = front_buf)

\* C13 (amended): the advertised address is changed only by the present of
\* swap_buffers, which follows the exchange, and by the first present of
\* app_main; in every state after that first present in which the task is not
\* between the exchange and the present of swap_buffers it is the Front buffer.
C13_SwapAndStartupPresent ==
    /\ [][presented' # presented => (SwapPresent \/ FirstFrame)]_vars
    /\ [](pc \notin {"allocate_buffers", "gdma_copy_init", "lcd_panel_init",
                     "first_frame", "aborted", "swap_back", "swap_present"}
            => presented = front_buf)

\* swap_buffers has presented the buffer that was Back when it was entered
C13_Witness ==
    /\ pc = "lv_disp_flush_ready"
    /\ flushing_last
    /\ presented = front_buf
    /\ presented = swap_entry.back

(***************************************************************************)
(* C14: the Work buffer is never exposed to the panel                      *)
(***************************************************************************)

\* C14: in every state after allocation, the address handed to the panel and the
\* buffer the panel scans out are not the buffer holding the Work role.
C14_WorkNeverShown ==
    Allocated => /\ presented # work_buf
                 /\ scan # work_buf

\* the second frame is half composed in Work while the panel scans out the first
C14_Witness ==
    /\ pc = "refr"
    /\ frames = 2
    /\ presented = front_buf
    /\ scan = front_buf
    /\ mem[work_buf] # mem[scan]

(***************************************************************************)
(* C15: startup failures are fatal                                         *)
(***************************************************************************)

\* allocate_buffers has returned with at least one request unsatisfied
AllocFailed ==
    /\ pc # "allocate_buffers"
    /\ NULL \in {work_buf, front_buf, back_buf}

\* gdma_copy_init has returned an error
GdmaInitFailed ==
    /\ pc \notin {"allocate_buffers", "gdma_copy_init"}
    /\ ~AllocFailed
    /\ ~s_mcp_handle

\* lcd_panel_init has returned an error
PanelInitFailed ==
    /\ pc \notin {"allocate_buffers", "gdma_copy_init", "lcd_panel_init"}
    /\ ~AllocFailed
    /\ s_mcp_handle
    /\ ~s_panel_handle

\* no present has happened and the rendering task has done nothing
NothingShownOrRendered ==
    /\ presented = NULL
    /\ scan = NULL
    /\ frames = 0
    /\ ~flushing
    /\ mcp_queue = <<>>

\* C15: after a failed allocation startup is aborted with no copy engine, no
\* panel, no present and no rendering; after a failed copy-engine or panel
\* initialization startup is aborted with no present and no rendering; an
\* aborted startup takes no further step.
C15_StartupFailureAborts ==
    /\ [](AllocFailed => /\ pc = "aborted"
                         /\ ~s_copy_done_sem
                         /\ ~s_mcp_handle
                         /\ ~s_panel_handle
                         /\ NothingShownOrRendered)
    /\ [](GdmaInitFailed => /\ pc = "aborted"
                            /\ ~s_panel_handle
                            /\ NothingShownOrRendered)
    /\ [](PanelInitFailed => /\ pc = "aborted"
                             /\ NothingShownOrRendered)
    /\ [][(pc # "aborted")]_vars

\* the third allocation request failed after two successful ones
C15_Witness ==
    /\ pc = "aborted"
    /\ work_buf # NULL
    /\ front_buf # NULL
    /\ back_buf = NULL

(***************************************************************************)
(* C16: every flush is acknowledged once, at the end of the callback       *)
(***************************************************************************)

\* the positions of the task inside lvgl_flush_cb
FlushPcs == CopyPcs \cup SwapPcs \cup {"gdma_copy_buffer", "lv_disp_flush_ready"}

\* C16: a flush callback is entered only from the renderer and left only through
\* lv_disp_flush_ready, which is called only inside a callback that has copied
\* its tile; when the last flush of a frame is acknowledged the copy engine is
\* idle, Back has been exchanged with Front, the new Front is the presented
\* address and holds the content of Work, on the fallback path too; and every
\* callback that was entered is eventually acknowledged.
C16_AckOnce ==
    /\ [][LvDispFlushReady => (flushing /\ ~flushing')]_vars
    /\ [][(flushing /\ ~flushing') => LvDispFlushReady]_vars
    /\ [][(~flushing /\ flushing') => (pc = "refr")]_vars
    /\ [](flushing <=> pc \in FlushPcs)
    /\ [](pc = "lv_disp_flush_ready" /\ flushing_last
             => /\ mcp_queue = <<>>
                /\ ~s_copy_in_progress
                /\ ret \in {"ESP_OK", "ESP_FAIL"}
                /\ front_buf = swap_entry.back
                /\ presented = front_buf
                /\ mem[front_buf] = mem[work_buf])
    /\ [](pc = "lv_disp_flush_ready" /\ ~flushing_last => ret = "none")
    /\ (flushing ~> ~flushing)

\* the last flush of a frame served by the fallback copy, about to be acknowledged
C16_Witness ==
    /\ pc = "lv_disp_flush_ready"
    /\ flushing
    /\ flushing_last
    /\ ret = "ESP_FAIL"
    /\ presented = front_buf
    /\ ENABLED LvDispFlushReady

(***************************************************************************)
(* C17: the per-frame state machine                                        *)
(***************************************************************************)

\* C17: the frame state starts in RENDERING and every change of it is one of
\* the four transitions of the cycle, for every frame.
C17_FrameCycleOnly ==
    /\ FrameState = "RENDERING"
    /\ [][(FrameState' # FrameState) =>
            (<<FrameState, FrameState'>> \in
                {<<"RENDERING", "FINALIZING">>, <<"FINALIZING", "COPY_WAIT">>,
                 <<"COPY_WAIT", "SWAPPED">>, <<"SWAPPED", "RENDERING">>})]_vars

\* C17, amended: the frame state starts in RENDERING; a frame whose copy was
\* accepted by the engine goes through the four transitions of the cycle; a
\* frame whose submission failed goes from FINALIZING straight to SWAPPED, and
\* COPY_WAIT is entered only with an accepted submission.
C17_FrameCycleOrFallback ==
    /\ FrameState = "RENDERING"
    /\ [][(FrameState' # FrameState) =>
            \/ <<FrameState, FrameState'>> = <<"RENDERING", "FINALIZING">>
            \/ /\ <<FrameState, FrameState'>> = <<"FINALIZING", "COPY_WAIT">>
               /\ ret' = "ESP_OK"
            \/ /\ <<FrameState, FrameState'>> = <<"FINALIZING", "SWAPPED">>
               /\ ret = "ESP_FAIL"
            \/ /\ <<FrameState, FrameState'>> = <<"COPY_WAIT", "SWAPPED">>
               /\ ret = "ESP_OK"
            \/ <<FrameState, FrameState'>> = <<"SWAPPED", "RENDERING">>]_vars
    /\ [](FrameState = "COPY_WAIT" => ret = "ESP_OK")

\* the second frame was served by the fallback copy and has reached SWAPPED
C17_Witness ==
    /\ FrameState = "SWAPPED"
    /\ ret = "ESP_FAIL"
    /\ frames = 2

(***************************************************************************)
(* C18: the initial roles and the first presented buffer                   *)
(***************************************************************************)

\* app_main is between the return of allocate_buffers and the start of the task
BeforeTask == pc \in {"gdma_copy_init", "lcd_panel_init", "first_frame", "lvgl_display_init"}

\* the buffer is all zero
ZeroFilled(buf) == \A i \in PixIdx : mem[buf][i] = 0

\* C18: after a successful allocation Work is the first buffer allocated, Back
\* the second and Front the third, and the first address presented is the
\* third buffer, zero-filled.
C18_InitialRolesBackSecond ==
    /\ BeforeTask => /\ work_buf = 1
                     /\ back_buf = 2
                     /\ front_buf = 3
    /\ pc = "lvgl_display_init" => /\ presented = 3
                                   /\ ZeroFilled(3)

\* C18, amended: after a successful allocation Work is the first buffer
\* allocated, Front the second and Back the third, all three zero-filled, and
\* the first address presented is Front, the second buffer.
C18_InitialRolesFrontSecond ==
    /\ BeforeTask => /\ work_buf = 1
                     /\ front_buf = 2
                     /\ back_buf = 3
                     /\ \A b \in Buffers : ZeroFilled(b)
    /\ pc \in {"allocate_buffers", "gdma_copy_init", "lcd_panel_init", "first_frame"}
          => presented = NULL
    /\ pc = "lvgl_display_init" => /\ presented = front_buf
                                   /\ presented = 2

\* the first frame has been presented
C18_Witness ==
    /\ pc = "lvgl_display_init"
    /\ presented = 2
    /\ front_buf = 2
    /\ ZeroFilled(2)

(***************************************************************************)
(* C19: the completion callback only gives the semaphore                   *)
(***************************************************************************)

\* the job at the head of the engine's queue is finished: the interrupt is due
CopyFinished ==
    /\ Len(mcp_queue) > 0
    /\ mcp_queue[1].pos = mcp_queue[1].len \div DISP_BPP

\* C19: the step that retires a finished copy job (the completion callback)
\* leaves the semaphore given and changes neither the roles, nor the content of
\* any buffer, nor the presented address, nor the copy-in-progress flag, nor the
\* position of the task; and whenever a job is finished the callback can run,
\* whatever the state of the semaphore.
C19_CallbackOnlyGives ==
    /\ [][(GdmaCopyDoneCb \/ Len(mcp_queue') < Len(mcp_queue))
             => /\ UNCHANGED <<roleVars, mem, presented, scan, s_copy_in_progress>>
                /\ UNCHANGED <<pc, taskLocals, frames>>
                /\ sem_count' = 1]_vars
    /\ [](CopyFinished => ENABLED GdmaCopyDoneCb)

\* the callback has run while the task waits in gdma_copy_buffer
C19_Witness ==
    /\ pc = "xSemaphoreTake"
    /\ sem_count = 1
    /\ mcp_queue = <<>>
    /\ s_copy_in_progress
    /\ mem[back_buf] = mem[work_buf]

(***************************************************************************)
(* C20: no stale completion signal                                         *)
(***************************************************************************)

\* C20: the semaphore holds no signal and the engine has no job while the frame
\* state is RENDERING and when the copy is about to be submitted; while the task
\* waits, either its own job is the only one outstanding and the semaphore is
\* empty, or the job is finished and retired and the semaphore holds its one
\* signal; so the take returns only after the copy it waits for has completed.
C20_NoStaleSignal ==
    /\ [](FrameState = "RENDERING" => /\ sem_count = 0
                                      /\ mcp_queue = <<>>)
    /\ [](pc \in {"gdma_copy_buffer", "esp_async_memcpy", "memcpy"}
             => /\ sem_count = 0
                /\ mcp_queue = <<>>)
    /\ [](pc = "xSemaphoreTake"
             => \/ /\ sem_count = 0
                   /\ Len(mcp_queue) = 1
                   /\ mcp_queue[1].dst = dst
                   /\ mcp_queue[1].src = src
                \/ /\ sem_count = 1
                   /\ mcp_queue = <<>>
                   /\ mem[dst] = mem[src])
    /\ [][SemaphoreTake => (mcp_queue = <<>> /\ mem[back_buf] = mem[work_buf])]_vars

\* the wait of the second frame is released by the completion of its own copy
C20_Witness ==
    /\ pc = "xSemaphoreTake"
    /\ frames = 2
    /\ sem_count = 1
    /\ mcp_queue = <<>>
    /\ prev_final.buf # NULL
    /\ mem[back_buf] = mem[work_buf]

====
